---- MODULE Spec2Model ----
(***************************************************************************)
(* The Cosa thermostat client.                                             *)
(*                                                                         *)
(*   Api          homeassistant/components/cosa/api.py                     *)
(*   CosaManager  homeassistant/components/cosa/cosa_manager.py            *)
(*                                                                         *)
(* Api is an asyncio client: a logical call runs atomically between two    *)
(* network awaits (session.post / session.get), so an Api call is a        *)
(* sequence of steps, one per request sent and one per response received.  *)
(***************************************************************************)
EXTENDS Integers, Sequences, FiniteSets, TLC

\* ------------------------------------------------------------------ bounds

\* The clock (minutes) stops advancing here.
MaxTime == 62

\* ------------------------------------------------------- program constants

\* Api.__LOGIN_TIMEOUT_DELTA = timedelta(minutes=60)
LOGIN_TIMEOUT_DELTA == 60

\* response.status != 200
HTTP_OK == 200

LOGIN_PATH == "/api/users/login"
GET_ENDPOINTS_PATH == "/api/endpoints/getEndpoints"
GET_ENDPOINT_PATH == "/api/endpoints/getEndpoint"
SET_TARGET_TEMPERATURES_PATH == "/api/endpoints/setTargetTemperatures"
SET_MODE_PATH == "/api/endpoints/setMode"

\* ------------------------------------------------------------- value sets

\* Python's None, where a string is expected.
None == "None"
\* A key that a JSON object does not have.
Absent == "absent"

\* Tokens the service may issue.
Tokens == {"T1", "T2"}

\* Callers (asyncio tasks) of one Api instance.
Tasks == {"a", "b"}

\* Clock advances: half the login window, and one minute more, so that the
\* ages 60 (fresh) and 61 (stale) both occur.
TickSteps == {LOGIN_TIMEOUT_DELTA \div 2, (LOGIN_TIMEOUT_DELTA \div 2) + 1}

\* Status codes the service answers with: 200, another 2xx, a 5xx.
Statuses == {HTTP_OK, 204, 500}

\* The endpoint id and temperatures the Api spec's callers pass.
EndpointIds == {"home123"}
Temps == {22, 24}

\* ---------------------------------------------------------------- network

\* What one request can meet: a transport exception (aiohttp.ClientError),
\* or an HTTP response with a status and a body.  The body of a 200 response is
\*   "undecodable"  response.json() raises json.JSONDecodeError (or
\*                  aiohttp.ContentTypeError, a ClientError),
\*   "null"         response.json() returns None: an empty body, or the JSON
\*                  text null,
\*   "object"       a JSON object, of which the code reads the keys "ok",
\*                  "authToken" and the result key of the path ("endpoint",
\*                  "endpoints").
\* The body of any other response is not read ("unread").
Exc ==
    [kind |-> "exc", status |-> 0, body |-> "unread", hasOk |-> FALSE,
     ok |-> 0, authToken |-> Absent, hasData |-> FALSE]

HttpStatus(s) ==
    [kind |-> "http", status |-> s, body |-> "unread", hasOk |-> FALSE,
     ok |-> 0, authToken |-> Absent, hasData |-> FALSE]

HttpBad(body) ==
    [kind |-> "http", status |-> HTTP_OK, body |-> body, hasOk |-> FALSE,
     ok |-> 0, authToken |-> Absent, hasData |-> FALSE]

HttpBody(hasOk, ok, tok, hasData) ==
    [kind |-> "http", status |-> HTTP_OK, body |-> "object", hasOk |-> hasOk,
     ok |-> ok, authToken |-> tok, hasData |-> hasData]

\* Responses no path's handling tells apart.
CommonResponses ==
    {Exc} \cup {HttpStatus(s) : s \in Statuses \ {HTTP_OK}}
          \cup {HttpBad(b) : b \in {"undecodable", "null"}}

\* {} / {"ok": 0} / {"ok": 1}
OkFields == {<<FALSE, 0>>, <<TRUE, 0>>, <<TRUE, 1>>}

LoginResponses ==
    CommonResponses
          \cup {HttpBody(f[1], f[2], tok, FALSE) :
                    f \in OkFields, tok \in Tokens \cup {Absent}}

TargetResponses ==
    CommonResponses
          \cup {HttpBody(f[1], f[2], Absent, d) : f \in OkFields, d \in BOOLEAN}

\* How a response is summarised in a task's request log.
Outcome(resp) ==
    IF resp.kind = "exc" THEN "exc"
    ELSE IF resp.status # HTTP_OK THEN "status"
    ELSE IF resp.body = "undecodable" THEN "decode"
    ELSE IF resp.body = "null" THEN "null"
    ELSE IF resp.hasOk /\ resp.ok = 1 THEN "ok"
    ELSE "nok"

\* ------------------------------------------------------------------- state

VARIABLES
    authToken,            \* Api.__authToken: None or a token
    lastSuccessfulCall,   \* Api.__lastSuccessfulCall: <<>> (None) or <<t>>
    now,                  \* datetime.now(UTC), in minutes
    tasks                 \* per caller: the Api call in flight and its locals

apiVars == <<authToken, lastSuccessfulCall, now, tasks>>

VARIABLES
    homeId,       \* CosaManager.__homeId
    apiKind,      \* what CosaManager.__api is: the Api of api.py, or the
                  \* synchronous double the manager's tests patch in for it
    endpoints,    \* the service's endpoint list (ids, in listing order)
    device,       \* the service's state of the thermostat
    ops,          \* per caller: the manager operation in flight and its locals
    resolvedId,   \* the first id getHomeId returned (None: none yet)
    lastSet       \* X when the operation completed last was a successful
                  \* setTemperature(X), else 0

mgrVars == <<homeId, apiKind, endpoints, device, ops, resolvedId, lastSet>>

\* Public operations of Api, plus the private __async_login that the tests
\* and the spec's login() name.
PostOps ==
    {"async_get_endpoint", "async_set_target_temperatures", "async_disable",
     "async_enable_schedule", "async_enable_custom_mode"}
ApiOps == {"async_connection_status", "__async_login", "async_get_endpoints"} \cup PostOps

NoEntry == [authToken |-> None, lastSuccessfulCall |-> <<>>, now |-> 0]

IdleTask ==
    [pc |-> "idle", op |-> None, path |-> None, doc |-> [enc |-> 0],
     payload |-> [enc |-> 0], allowRetry |-> TRUE, sent |-> <<>>,
     logins |-> 0, loginResult |-> None, loginResp |-> Exc, ret |-> "unset",
     result |-> None, entry |-> NoEntry]

\* ------------------------------------------------------- Api: pure helpers

\* json.dumps(payload): a dict becomes its JSON text, a str becomes a quoted
\* JSON string; enc counts the encodings applied to the document.
JsonDumps(payload) == [payload EXCEPT !.enc = @ + 1]

\* Api.__has_auth
HasAuth(token) == token # None

\* A faulty variant of IsLoginTimedOut: the window compared with >= instead of >.
IsLoginTimedOut_Inclusive(last, t) ==
    \/ last = <<>>
    \/ t - last[1] >= LOGIN_TIMEOUT_DELTA

\* Api.__is_login_timed_out
IsLoginTimedOut(last, t) ==
    \/ last = <<>>
    \/ t - last[1] > LOGIN_TIMEOUT_DELTA

\* Api.__getHeaders
GetHeaders(token) ==
    [contentType |-> "application/json",
     authToken |-> IF HasAuth(token) THEN token ELSE Absent]

\* A faulty variant of GetResponseIfSuccess: the timestamp is written for every decoded
\* body of a 200 response, before ok is looked at.
GetResponseIfSuccess_StampsAnyBody(resp) ==
    IF resp.status # HTTP_OK
        THEN [raised |-> None, data |-> FALSE, stamp |-> FALSE]
    ELSE IF resp.body = "undecodable"
        THEN [raised |-> "JSONDecodeError", data |-> FALSE, stamp |-> FALSE]
    ELSE IF resp.body = "null"
        THEN [raised |-> "TypeError", data |-> FALSE, stamp |-> TRUE]
    ELSE [raised |-> None, data |-> resp.hasOk /\ resp.ok = 1, stamp |-> TRUE]

\* Api.__async_get_response_if_success, without the timestamp write:
\* raised = the exception it ends with (None: it returns); data = it returns
\* the dict (FALSE: None); stamp = __lastSuccessfulCall is set.  On a body
\* that response.json() turns into None, `"ok" in data` raises TypeError.
GetResponseIfSuccess(resp) ==
    IF resp.status # HTTP_OK
        THEN [raised |-> None, data |-> FALSE, stamp |-> FALSE]
    ELSE IF resp.body = "undecodable"
        THEN [raised |-> "JSONDecodeError", data |-> FALSE, stamp |-> FALSE]
    ELSE IF resp.body = "null"
        THEN [raised |-> "TypeError", data |-> FALSE, stamp |-> FALSE]
    ELSE IF resp.hasOk /\ resp.ok = 1
        THEN [raised |-> None, data |-> TRUE, stamp |-> TRUE]
    ELSE [raised |-> None, data |-> FALSE, stamp |-> FALSE]

\* The try block of __async_post_without_auth: session.post raises, or the
\* response is handed to __async_get_response_if_success.
TryRequest(resp) ==
    IF resp.kind = "exc"
        THEN [raised |-> "ClientError", data |-> FALSE, stamp |-> FALSE]
        ELSE GetResponseIfSuccess(resp)

\* except (aiohttp.ClientError, json.JSONDecodeError)
Caught(raised) == raised \in {"ClientError", "JSONDecodeError"}

\* A faulty variant of ShouldRetry: allowRetry is not looked at.
ShouldRetry_Always(raised, allowRetry) == Caught(raised)

\* except (aiohttp.ClientError, json.JSONDecodeError): if allowRetry: ...
ShouldRetry(raised, allowRetry) == Caught(raised) /\ allowRetry

\* The allowRetry argument of the recursive call.
RetryAllowRetry == FALSE

\* __async_login: "authToken" in data
LoginSucceeds(data, resp) == data /\ resp.authToken # Absent

\* A faulty variant of LoginToken: an authToken key is stored whether or not the
\* response passed the success test, and a failure clears nothing else.
LoginToken_AnyAuthToken(data, resp) ==
    IF resp.authToken # Absent THEN resp.authToken ELSE None

\* __async_login: the token stored afterwards
LoginToken(data, resp) ==
    IF LoginSucceeds(data, resp) THEN resp.authToken ELSE None

\* The public operations' mapping of __async_post's result.
OpResult(opname, data, resp) ==
    IF opname \in {"async_get_endpoint", "async_get_endpoints"}
        THEN IF data /\ resp.hasData THEN "EndpointData" ELSE None
        ELSE IF data THEN "True" ELSE "False"

PathOf(opname) ==
    CASE opname = "async_get_endpoints" -> GET_ENDPOINTS_PATH
      [] opname = "async_get_endpoint" -> GET_ENDPOINT_PATH
      [] opname = "async_set_target_temperatures" -> SET_TARGET_TEMPERATURES_PATH
      [] opname \in {"async_disable", "async_enable_schedule",
                     "async_enable_custom_mode"} -> SET_MODE_PATH
      [] OTHER -> LOGIN_PATH

\* The payload dicts the public operations build.
LoginDoc == [enc |-> 0, email |-> "username", password |-> "password"]

DocOf(opname, id, temp) ==
    CASE opname = "async_get_endpoint" -> [enc |-> 0, endpoint |-> id]
      [] opname = "async_set_target_temperatures" ->
            [enc |-> 0, endpoint |-> id,
             targetTemperatures |->
                [home |-> 20, away |-> 15, sleep |-> 18, custom |-> temp]]
      [] opname = "async_disable" ->
            [enc |-> 0, endpoint |-> id, mode |-> "manual", option |-> "frozen"]
      [] opname = "async_enable_schedule" ->
            [enc |-> 0, endpoint |-> id, mode |-> "schedule"]
      [] opname = "async_enable_custom_mode" ->
            [enc |-> 0, endpoint |-> id, mode |-> "manual", option |-> "custom"]
      [] OTHER -> [enc |-> 0]

\* One request put on the wire by __async_post_without_auth with this payload
\* argument: body = json.dumps(payload), headers = __getHeaders().
Request(path, payload, token) ==
    [path |-> path, headers |-> GetHeaders(token), body |-> JsonDumps(payload),
     outcome |-> "pending"]

\* __async_post_without_auth(path, payload, allowRetry) up to its await.
SendPost(task, pcname, path, payload, allowRetry, token) ==
    [task EXCEPT !.pc = pcname, !.path = path,
                 !.payload = JsonDumps(payload), !.allowRetry = allowRetry,
                 !.sent = Append(@, Request(path, payload, token))]

\* __async_login up to its await.
StartLogin(task, token) ==
    SendPost([task EXCEPT !.logins = @ + 1], "login", LOGIN_PATH, LoginDoc, TRUE, token)

Finish(task, res) == [task EXCEPT !.pc = "done", !.result = res]

\* An exception leaves the public operation.
Raise(task, exc) == [task EXCEPT !.pc = "raised", !.result = exc]

\* A public operation returns what it makes of __async_post's / __async_get's
\* result (ret: None or the response's dict).
OpFinish(task, data, resp) ==
    Finish([task EXCEPT !.ret = IF data THEN "dict" ELSE None],
           OpResult(task.op, data, resp))

\* __async_get, once authenticated: returns the coroutine object of
\* __async_get_without_auth without awaiting it, so no request is sent;
\* async_get_endpoints then evaluates `"endpoints" in data` on it, which
\* raises TypeError.
GetAuthenticated(task) == Raise([task EXCEPT !.ret = "coroutine"], "TypeError")

\* ------------------------------------------------------------ Api: actions

\* The continuation of __async_login's callers once it has returned.
AfterLogin(task, ok, token) ==
    CASE task.op \in {"__async_login", "async_connection_status"} ->
            Finish(task, IF ok THEN "True" ELSE "False")
      [] task.op = "async_get_endpoints" ->
            IF ok THEN GetAuthenticated(task) ELSE OpFinish(task, FALSE, Exc)
      [] OTHER ->
            IF ok
                THEN SendPost(task, "target", PathOf(task.op), task.doc, TRUE, token)
                ELSE OpFinish(task, FALSE, Exc)

\* A caller starts a public operation; it runs to its first await or to its end.
Begin(task, token, last, t) ==
    CASE task.op = "async_connection_status" ->
            IF IsLoginTimedOut(last, t)
                THEN StartLogin(task, token) ELSE Finish(task, "True")
      [] task.op = "__async_login" -> StartLogin(task, token)
      [] task.op = "async_get_endpoints" ->
            IF ~HasAuth(token) THEN StartLogin(task, token) ELSE GetAuthenticated(task)
      [] OTHER ->
            IF ~HasAuth(token)
                THEN StartLogin(task, token)
                ELSE SendPost(task, "target", PathOf(task.op), task.doc, TRUE, token)

ApiCall(t, opname, id, temp) ==
    /\ tasks[t].pc = "idle"
    /\ LET fresh == [IdleTask EXCEPT
                        !.op = opname, !.doc = DocOf(opname, id, temp),
                        !.entry = [authToken |-> authToken,
                                   lastSuccessfulCall |-> lastSuccessfulCall,
                                   now |-> now]]
       IN tasks' = [tasks EXCEPT ![t] = Begin(fresh, authToken, lastSuccessfulCall, now)]
    /\ UNCHANGED <<authToken, lastSuccessfulCall, now>>
    /\ UNCHANGED mgrVars

\* One operation in flight per client at a time (the serialized use the spec
\* asks of callers).
Call(t, opname, id, temp) ==
    /\ \A u \in Tasks \ {t} : tasks[u].pc = "idle"
    /\ ApiCall(t, opname, id, temp)

\* The request in flight of task t meets resp; the call runs to its next await
\* or to its end.
Respond(t, resp) ==
    /\ tasks[t].pc \in {"login", "target"}
    /\ resp \in (IF tasks[t].pc = "login" THEN LoginResponses ELSE TargetResponses)
    /\ LET cur == tasks[t]
           try == TryRequest(resp)
           logged == [cur EXCEPT !.sent[Len(cur.sent)].outcome = Outcome(resp)]
       IN IF ShouldRetry(try.raised, cur.allowRetry)
            THEN /\ tasks' = [tasks EXCEPT ![t] =
                        SendPost(logged, cur.pc, cur.path, cur.payload,
                                 RetryAllowRetry, authToken)]
                 /\ UNCHANGED <<authToken, lastSuccessfulCall>>
            ELSE IF try.raised # None /\ ~Caught(try.raised)
            THEN \* the exception leaves every caller up to the public operation
                 /\ tasks' = [tasks EXCEPT ![t] =
                        Raise([logged EXCEPT !.loginResp =
                                    IF cur.pc = "login" THEN resp ELSE @],
                              try.raised)]
                 /\ lastSuccessfulCall' =
                        IF try.stamp THEN <<now>> ELSE lastSuccessfulCall
                 /\ authToken' = authToken
            ELSE /\ lastSuccessfulCall' =
                        IF try.stamp THEN <<now>> ELSE lastSuccessfulCall
                 /\ IF cur.pc = "login"
                      THEN LET ok == LoginSucceeds(try.data, resp)
                               tok == LoginToken(try.data, resp)
                               after == [logged EXCEPT
                                    !.loginResult = IF ok THEN "True" ELSE "False",
                                    !.loginResp = resp]
                           IN /\ authToken' = tok
                              /\ tasks' = [tasks EXCEPT ![t] = AfterLogin(after, ok, tok)]
                      ELSE /\ authToken' = authToken
                           /\ tasks' = [tasks EXCEPT ![t] =
                                    OpFinish(logged, try.data, resp)]
    /\ now' = now
    /\ UNCHANGED mgrVars

\* The caller takes the result (or the exception); the call's locals are gone.
Return(t) ==
    /\ tasks[t].pc \in {"done", "raised"}
    /\ tasks' = [tasks EXCEPT ![t] = IdleTask]
    /\ UNCHANGED <<authToken, lastSuccessfulCall, now>>
    /\ UNCHANGED mgrVars

\* Time passes.
Tick(d) ==
    /\ now + d <= MaxTime
    /\ now' = now + d
    /\ UNCHANGED <<authToken, lastSuccessfulCall, tasks>>
    /\ UNCHANGED mgrVars

\* ------------------------------------------------- CosaManager: the service

\* Endpoint lists the service may report, and the states of the thermostat.
EndpointLists == {<<>>, <<"home123">>, <<"home456", "home123">>}

HomeTemps == {19, 20}

DeviceStates ==
    [homeTemperature : HomeTemps, awayTemperature : {15}, sleepTemperature : {18},
     customTemperature : Temps, mode : {"manual", "schedule"},
     option : {"frozen", "custom"}]

\* /api/endpoints/setTargetTemperatures, acknowledged
ApplyTemperatures(d, temps) ==
    [d EXCEPT !.homeTemperature = temps[1], !.awayTemperature = temps[2],
              !.sleepTemperature = temps[3], !.customTemperature = temps[4]]

\* /api/endpoints/setMode, acknowledged; a payload without option (Absent)
\* leaves the option as it is
ApplyMode(d, mode, option) ==
    [d EXCEPT !.mode = mode, !.option = IF option = Absent THEN @ ELSE option]

\* --------------------------------------------------- CosaManager: helpers

ManagerOps ==
    {"getHomeId", "getCurrentStatus", "setTemperature", "turnOff", "enableSchedule"}

NoStatus ==
    [homeTemperature |-> 0, awayTemperature |-> 0, sleepTemperature |-> 0,
     customTemperature |-> 0, mode |-> None, option |-> None]

IdleOp ==
    [pc |-> "idle", op |-> None, targetTemp |-> 0, homeId |-> None,
     currentStatus |-> NoStatus, calls |-> <<>>, result |-> None,
     entryResolved |-> None, entryLastSet |-> 0]

\* One call of a method of self.__api, as the manager made it.
ApiCallEntry(api, id, temps, res) ==
    [api |-> api, id |-> id, temps |-> temps, result |-> res]

\* A faulty variant of AlreadyAtTarget: the home temperature compared instead of the
\* custom one.
AlreadyAtTarget_HomeTemperature(status, targetTemp) ==
    /\ status.mode = "manual"
    /\ status.option = "custom"
    /\ status.homeTemperature = targetTemp

\* A faulty variant of AlreadyAtTarget: the temperature is not compared.
AlreadyAtTarget_AnyTemperature(status, targetTemp) ==
    /\ status.mode = "manual"
    /\ status.option = "custom"

\* setTemperature: already set to targetTemp
AlreadyAtTarget(status, targetTemp) ==
    /\ status.mode = "manual"
    /\ status.option = "custom"
    /\ status.customTemperature = targetTemp

\* A faulty variant of AlreadyManualCustom: the option of turnOff's test.
AlreadyManualCustom_Frozen(status) ==
    status.mode = "manual" /\ status.option = "frozen"

\* A faulty variant of AlreadyManualCustom: the option is not looked at.
AlreadyManualCustom_AnyManual(status) == status.mode = "manual"

\* setTemperature: already set to manual mode
AlreadyManualCustom(status) ==
    status.mode = "manual" /\ status.option = "custom"

\* A faulty variant of AlreadyOff: the option is not looked at.
AlreadyOff_AnyManual(status) == status.mode = "manual"

\* turnOff: already turned off
AlreadyOff(status) ==
    status.mode = "manual" /\ status.option = "frozen"

\* enableSchedule: already enabled
AlreadySchedule(status) == status.mode = "schedule"

\* A faulty variant of ForwardTemps: away and sleep in each other's place.
ForwardTemps_Swapped(status, targetTemp) ==
    <<status.homeTemperature, status.sleepTemperature, status.awayTemperature,
      targetTemp>>

\* The arguments of the two async_set_target_temperatures calls.
ForwardTemps(status, targetTemp) ==
    <<status.homeTemperature, status.awayTemperature, status.sleepTemperature,
      targetTemp>>

\* A faulty variant of RollbackTemps: the revert writes targetTemp again.
RollbackTemps_Target(status, targetTemp) ==
    <<status.homeTemperature, status.awayTemperature, status.sleepTemperature,
      targetTemp>>

RollbackTemps(status, targetTemp) ==
    <<status.homeTemperature, status.awayTemperature, status.sleepTemperature,
      status.customTemperature>>

\* What an operation returns when getHomeId or the status read gave None.
Unreadable(opname) ==
    IF opname \in {"getHomeId", "getCurrentStatus"} THEN None ELSE "False"

OpDone(o, res) == [o EXCEPT !.pc = "done", !.result = res]

OpRaise(o, exc) == [o EXCEPT !.pc = "raised", !.result = exc]

Bool(b) == IF b THEN "True" ELSE "False"

\* The caller of getHomeId goes on with its return value.
AfterHomeId(o, id) ==
    IF o.op = "getHomeId" THEN OpDone(o, id)
    ELSE IF id = None THEN OpDone(o, Unreadable(o.op))
    ELSE [o EXCEPT !.homeId = id, !.pc = "read"]

\* getHomeId once self.__api.async_get_endpoints() has returned listed (None or
\* a list of ids): `endpoints == 0` is False for every list, and endpoints[0]
\* raises IndexError on the empty one.  The id is returned, not stored.
GetHomeIdResult(o, isNone, listed) ==
    IF isNone THEN AfterHomeId(o, None)
    ELSE IF Len(listed) = 0 THEN OpRaise(o, "IndexError")
    ELSE AfterHomeId(o, listed[1])

\* getHomeId up to the call of async_get_endpoints.  The Api of api.py returns
\* a coroutine object there, which is not None, not 0, and not subscriptable:
\* endpoints[0] raises TypeError, and no request has been sent.
GetHomeId(o, cached, kind) ==
    IF cached # None THEN AfterHomeId(o, cached)
    ELSE IF kind = "Api"
        THEN OpRaise([o EXCEPT !.calls = Append(@,
                        ApiCallEntry("async_get_endpoints", None, <<>>, "coroutine"))],
                     "TypeError")
    ELSE [o EXCEPT !.pc = "list"]

\* The caller goes on with the status read.
AfterStatus(o, status) ==
    LET r == [o EXCEPT !.currentStatus = status]
    IN CASE o.op = "getCurrentStatus" -> OpDone(r, "status")
         [] o.op = "setTemperature" ->
                IF AlreadyAtTarget(status, o.targetTemp)
                    THEN OpDone(r, "True") ELSE [r EXCEPT !.pc = "setTemp"]
         [] o.op = "turnOff" ->
                IF AlreadyOff(status)
                    THEN OpDone(r, "True") ELSE [r EXCEPT !.pc = "disable"]
         [] OTHER ->
                IF AlreadySchedule(status)
                    THEN OpDone(r, "True") ELSE [r EXCEPT !.pc = "schedule"]

\* lastSet once the operation has reached state o.
LastSetAfter(o, before) ==
    IF o.pc \in {"done", "raised"}
        THEN IF o.op = "setTemperature" /\ o.result = "True" THEN o.targetTemp ELSE 0
        ELSE before

Logged(o, api, temps, res) ==
    [o EXCEPT !.calls = Append(@, ApiCallEntry(api, o.homeId, temps, res))]

\* --------------------------------------------------- CosaManager: actions

\* A caller starts an operation of the manager.
ManagerCall(t, opname, targetTemp) ==
    /\ ops[t].pc = "idle"
    /\ LET fresh == [IdleOp EXCEPT
                        !.op = opname,
                        !.targetTemp = IF opname = "setTemperature" THEN targetTemp ELSE 0,
                        !.entryResolved = resolvedId, !.entryLastSet = lastSet]
           next == GetHomeId(fresh, homeId, apiKind)
       IN /\ ops' = [ops EXCEPT ![t] = next]
          /\ lastSet' = LastSetAfter(next, lastSet)
    /\ UNCHANGED <<homeId, apiKind, endpoints, device, resolvedId>>
    /\ UNCHANGED apiVars

\* One operation in flight per manager at a time.
MgrCall(t, opname, targetTemp) ==
    /\ \A u \in Tasks \ {t} : ops[u].pc = "idle"
    /\ ManagerCall(t, opname, targetTemp)

\* self.__api.async_get_endpoints() returns: None, or the service's list.
ListEndpoints(t, ok) ==
    /\ ops[t].pc = "list"
    /\ LET logged == [ops[t] EXCEPT !.calls = Append(@,
                        ApiCallEntry("async_get_endpoints", None, <<>>,
                                     IF ok THEN "list" ELSE None))]
           next == GetHomeIdResult(logged, ~ok, endpoints)
           id == IF ok /\ Len(endpoints) > 0 THEN endpoints[1] ELSE None
       IN /\ ops' = [ops EXCEPT ![t] = next]
          /\ lastSet' = LastSetAfter(next, lastSet)
          /\ resolvedId' = IF resolvedId = None THEN id ELSE resolvedId
    /\ UNCHANGED <<homeId, apiKind, endpoints, device>>
    /\ UNCHANGED apiVars

\* self.__api.async_get_endpoint(homeId) returns: None, or the device's state.
GetEndpoint(t, ok) ==
    /\ ops[t].pc = "read"
    /\ LET logged == Logged(ops[t], "async_get_endpoint", <<>>,
                            IF ok THEN "dict" ELSE None)
           next == IF ok THEN AfterStatus(logged, device)
                         ELSE OpDone(logged, Unreadable(logged.op))
       IN /\ ops' = [ops EXCEPT ![t] = next]
          /\ lastSet' = LastSetAfter(next, lastSet)
    /\ UNCHANGED <<homeId, apiKind, endpoints, device, resolvedId>>
    /\ UNCHANGED apiVars

\* setTemperature: async_set_target_temperatures(homeId, homeTemp, awayTemp,
\* sleepTemp, targetTemp) returns True (the service applied it) or False.
SetTargetTemperatures(t, ok) ==
    /\ ops[t].pc = "setTemp"
    /\ LET cur == ops[t]
           temps == ForwardTemps(cur.currentStatus, cur.targetTemp)
           logged == Logged(cur, "async_set_target_temperatures", temps, Bool(ok))
           next == IF ~ok THEN OpDone(logged, "False")
                   ELSE IF AlreadyManualCustom(cur.currentStatus)
                        THEN OpDone(logged, "True")
                        ELSE [logged EXCEPT !.pc = "setMode"]
       IN /\ ops' = [ops EXCEPT ![t] = next]
          /\ lastSet' = LastSetAfter(next, lastSet)
          /\ device' = IF ok THEN ApplyTemperatures(device, temps) ELSE device
    /\ UNCHANGED <<homeId, apiKind, endpoints, resolvedId>>
    /\ UNCHANGED apiVars

\* setTemperature: async_enable_custom_mode(homeId) returns True or False.
EnableCustomMode(t, ok) ==
    /\ ops[t].pc = "setMode"
    /\ LET logged == Logged(ops[t], "async_enable_custom_mode", <<>>, Bool(ok))
           next == IF ok THEN OpDone(logged, "True")
                         ELSE [logged EXCEPT !.pc = "rollback"]
       IN /\ ops' = [ops EXCEPT ![t] = next]
          /\ lastSet' = LastSetAfter(next, lastSet)
          /\ device' = IF ok THEN ApplyMode(device, "manual", "custom") ELSE device
    /\ UNCHANGED <<homeId, apiKind, endpoints, resolvedId>>
    /\ UNCHANGED apiVars

\* setTemperature: the revert, async_set_target_temperatures(homeId, homeTemp,
\* awayTemp, sleepTemp, customTemp); its result is dropped.
RollbackTemperatures(t, ok) ==
    /\ ops[t].pc = "rollback"
    /\ LET cur == ops[t]
           temps == RollbackTemps(cur.currentStatus, cur.targetTemp)
           logged == Logged(cur, "async_set_target_temperatures", temps, Bool(ok))
           next == OpDone(logged, "False")
       IN /\ ops' = [ops EXCEPT ![t] = next]
          /\ lastSet' = LastSetAfter(next, lastSet)
          /\ device' = IF ok THEN ApplyTemperatures(device, temps) ELSE device
    /\ UNCHANGED <<homeId, apiKind, endpoints, resolvedId>>
    /\ UNCHANGED apiVars

\* turnOff: async_disable(homeId) returns True or False.
Disable(t, ok) ==
    /\ ops[t].pc = "disable"
    /\ LET logged == Logged(ops[t], "async_disable", <<>>, Bool(ok))
           next == OpDone(logged, Bool(ok))
       IN /\ ops' = [ops EXCEPT ![t] = next]
          /\ lastSet' = LastSetAfter(next, lastSet)
          /\ device' = IF ok THEN ApplyMode(device, "manual", "frozen") ELSE device
    /\ UNCHANGED <<homeId, apiKind, endpoints, resolvedId>>
    /\ UNCHANGED apiVars

\* enableSchedule: async_enable_schedule(homeId) returns True or False.
EnableSchedule(t, ok) ==
    /\ ops[t].pc = "schedule"
    /\ LET logged == Logged(ops[t], "async_enable_schedule", <<>>, Bool(ok))
           next == OpDone(logged, Bool(ok))
       IN /\ ops' = [ops EXCEPT ![t] = next]
          /\ lastSet' = LastSetAfter(next, lastSet)
          /\ device' = IF ok THEN ApplyMode(device, "schedule", Absent) ELSE device
    /\ UNCHANGED <<homeId, apiKind, endpoints, resolvedId>>
    /\ UNCHANGED apiVars

\* The caller takes the result (or the exception).
MgrReturn(t) ==
    /\ ops[t].pc \in {"done", "raised"}
    /\ ops' = [ops EXCEPT ![t] = IdleOp]
    /\ UNCHANGED <<homeId, apiKind, endpoints, device, resolvedId, lastSet>>
    /\ UNCHANGED apiVars

\* No operation is handing over its result.
Quiescent == \A t \in Tasks : ops[t].pc \notin {"done", "raised"}

\* Somebody else (the thermostat's own controls, another client) changes the
\* device, one field at a time.
ExternalWrite(d) ==
    /\ Quiescent
    /\ Cardinality({f \in DOMAIN d : d[f] # device[f]}) = 1
    /\ device' = d
    /\ UNCHANGED <<homeId, apiKind, endpoints, ops, resolvedId, lastSet>>
    /\ UNCHANGED apiVars

\* The account's endpoint list changes.
EndpointsChange(l) ==
    /\ Quiescent
    /\ l # endpoints
    /\ endpoints' = l
    /\ UNCHANGED <<homeId, apiKind, device, ops, resolvedId, lastSet>>
    /\ UNCHANGED apiVars

\* ------------------------------------------------------------ specification

vars == <<authToken, lastSuccessfulCall, now, tasks,
          homeId, apiKind, endpoints, device, ops, resolvedId, lastSet>>

\* Api.__init__ and the class attributes of Api
ApiInit ==
    /\ authToken = None
    /\ lastSuccessfulCall = <<>>
    /\ now = 0
    /\ tasks = [t \in Tasks |-> IdleTask]

\* CosaManager.__init__ and the class attribute __homeId
ManagerInit ==
    /\ homeId = None
    /\ ops = [t \in Tasks |-> IdleOp]
    /\ resolvedId = None
    /\ lastSet = 0

\* The Api specification: a manager over the Api of api.py, idle throughout.
Init ==
    /\ ApiInit
    /\ ManagerInit
    /\ apiKind = "Api"
    /\ endpoints = <<"home123">>
    /\ device = [homeTemperature |-> 20, awayTemperature |-> 15,
                 sleepTemperature |-> 18, customTemperature |-> 22,
                 mode |-> "manual", option |-> "custom"]

Next ==
    \/ \E t \in Tasks, opname \in ApiOps, id \in EndpointIds, temp \in Temps :
            Call(t, opname, id, temp)
    \/ \E t \in Tasks, resp \in LoginResponses \cup TargetResponses : Respond(t, resp)
    \/ \E t \in Tasks : Return(t)
    \/ \E d \in TickSteps : Tick(d)

Spec == Init /\ [][Next]_vars

\* The manager specification: a manager over the Api of api.py or over its
\* synchronous double, against any endpoint list and device state.
MgrInit ==
    /\ ApiInit
    /\ ManagerInit
    /\ apiKind \in {"Api", "double"}
    /\ endpoints \in EndpointLists
    /\ device \in DeviceStates

MgrNext ==
    \/ \E t \in Tasks, opname \in ManagerOps, targetTemp \in Temps :
            MgrCall(t, opname, targetTemp)
    \/ \E t \in Tasks, ok \in BOOLEAN : ListEndpoints(t, ok)
    \/ \E t \in Tasks, ok \in BOOLEAN : GetEndpoint(t, ok)
    \/ \E t \in Tasks, ok \in BOOLEAN : SetTargetTemperatures(t, ok)
    \/ \E t \in Tasks, ok \in BOOLEAN : EnableCustomMode(t, ok)
    \/ \E t \in Tasks, ok \in BOOLEAN : RollbackTemperatures(t, ok)
    \/ \E t \in Tasks, ok \in BOOLEAN : Disable(t, ok)
    \/ \E t \in Tasks, ok \in BOOLEAN : EnableSchedule(t, ok)
    \/ \E t \in Tasks : MgrReturn(t)
    \/ \E d \in DeviceStates : ExternalWrite(d)
    \/ \E l \in EndpointLists : EndpointsChange(l)

MgrSpec == MgrInit /\ [][MgrNext]_vars

\* The manager in serialized use as the only writer of the device: the
\* manager specification without the other writers.
SoleWriterNext ==
    \/ \E t \in Tasks, opname \in ManagerOps, targetTemp \in Temps :
            MgrCall(t, opname, targetTemp)
    \/ \E t \in Tasks, ok \in BOOLEAN : ListEndpoints(t, ok)
    \/ \E t \in Tasks, ok \in BOOLEAN : GetEndpoint(t, ok)
    \/ \E t \in Tasks, ok \in BOOLEAN : SetTargetTemperatures(t, ok)
    \/ \E t \in Tasks, ok \in BOOLEAN : EnableCustomMode(t, ok)
    \/ \E t \in Tasks, ok \in BOOLEAN : RollbackTemperatures(t, ok)
    \/ \E t \in Tasks, ok \in BOOLEAN : Disable(t, ok)
    \/ \E t \in Tasks, ok \in BOOLEAN : EnableSchedule(t, ok)
    \/ \E t \in Tasks : MgrReturn(t)
    \/ \E l \in EndpointLists : EndpointsChange(l)

SoleWriterSpec == MgrInit /\ [][SoleWriterNext]_vars

\* The operations that read, compare and write.
ReconcilingOps == {"setTemperature", "turnOff", "enableSchedule"}

\* Overlapping operations on one manager: a caller starts an operation
\* whatever the other caller's operation is doing, and the operations' network
\* calls interleave.  No other writer acts.
ConcurrentNext ==
    \/ \E t \in Tasks, opname \in ReconcilingOps, targetTemp \in Temps :
            ManagerCall(t, opname, targetTemp)
    \/ \E t \in Tasks, ok \in BOOLEAN : ListEndpoints(t, ok)
    \/ \E t \in Tasks, ok \in BOOLEAN : GetEndpoint(t, ok)
    \/ \E t \in Tasks, ok \in BOOLEAN : SetTargetTemperatures(t, ok)
    \/ \E t \in Tasks, ok \in BOOLEAN : EnableCustomMode(t, ok)
    \/ \E t \in Tasks, ok \in BOOLEAN : RollbackTemperatures(t, ok)
    \/ \E t \in Tasks, ok \in BOOLEAN : Disable(t, ok)
    \/ \E t \in Tasks, ok \in BOOLEAN : EnableSchedule(t, ok)
    \/ \E t \in Tasks : MgrReturn(t)

\* One endpoint on the account, any device state.
ConcurrentInit ==
    /\ ApiInit
    /\ ManagerInit
    /\ apiKind \in {"Api", "double"}
    /\ endpoints = <<"home123">>
    /\ device \in DeviceStates

ConcurrentSpec == ConcurrentInit /\ [][ConcurrentNext]_vars

\* What the requests of overlapping calls meet: a transport exception, a
\* status other than 200, a login accepted with a token, a request accepted.
ConcurrentResponses ==
    {Exc, HttpStatus(500), HttpBody(TRUE, 1, "T1", FALSE),
     HttpBody(TRUE, 1, Absent, TRUE)}

\* Overlapping calls on one client: a caller starts an operation whatever the
\* other caller's call is doing; the calls interleave at their network awaits.
ClientConcurrentNext ==
    \/ \E t \in Tasks, opname \in ApiOps, id \in EndpointIds, temp \in Temps :
            ApiCall(t, opname, id, temp)
    \/ \E t \in Tasks, resp \in ConcurrentResponses : Respond(t, resp)
    \/ \E t \in Tasks : Return(t)

ClientConcurrentSpec == Init /\ [][ClientConcurrentNext]_vars

\* ================================================================== claims

\* Requests task t has sent to the path of its operation (not the login path).
TargetIdx(t) ==
    {i \in 1..Len(tasks[t].sent) : tasks[t].sent[i].path = PathOf(tasks[t].op)}

AuthOps == PostOps \cup {"async_get_endpoints"}

\* The token as the call found it was fresh: a timestamp at most 60 minutes old.
EntryFresh(t) ==
    /\ tasks[t].entry.lastSuccessfulCall # <<>>
    /\ tasks[t].entry.now - tasks[t].entry.lastSuccessfulCall[1] <= LOGIN_TIMEOUT_DELTA

\* C1: async_connection_status called with a last-successful-call timestamp at
\* most 60 minutes old returns True without any login call and without sending
\* a request; called with an older timestamp or with none it calls login
\* exactly once and returns that login's result.
C1_TokenFreshness ==
    \A t \in Tasks :
        tasks[t].op = "async_connection_status" =>
            /\ IF EntryFresh(t)
                 THEN /\ tasks[t].pc = "done"
                      /\ tasks[t].result = "True"
                      /\ tasks[t].logins = 0
                      /\ tasks[t].sent = <<>>
                 ELSE /\ tasks[t].logins = 1
                      /\ tasks[t].pc = "done" =>
                            /\ tasks[t].loginResult \in {"True", "False"}
                            /\ tasks[t].result = tasks[t].loginResult

\* C1 witness: a connection status call answered True with no login at an age
\* of exactly 60 minutes.
C1_Witness ==
    \E t \in Tasks :
        /\ tasks[t].op = "async_connection_status"
        /\ tasks[t].pc = "done"
        /\ tasks[t].entry.lastSuccessfulCall # <<>>
        /\ tasks[t].entry.now - tasks[t].entry.lastSuccessfulCall[1] = LOGIN_TIMEOUT_DELTA
        /\ tasks[t].result = "True"
        /\ tasks[t].logins = 0

\* C2: an authenticated GET or POST started while the token is stale (no
\* successful call, or the last one more than 60 minutes ago) calls login
\* before any request goes to the target path, also when a token is stored;
\* and when that login fails the call returns None with no request to the
\* target path.
C2_StaleForcesLogin ==
    \A t \in Tasks :
        (tasks[t].op \in AuthOps /\ ~EntryFresh(t)) =>
            /\ TargetIdx(t) # {} => tasks[t].logins >= 1
            /\ tasks[t].loginResult = "False" =>
                    /\ TargetIdx(t) = {}
                    /\ tasks[t].pc = "done"
                    /\ tasks[t].ret = None

\* C3: an authenticated call sends at most two requests to its target path; a
\* transport exception on the first is followed by exactly one retry to the
\* same path; when the retry meets a transport exception too, the call returns
\* None.
C3_RetryBound ==
    \A t \in Tasks :
        tasks[t].op \in AuthOps =>
            /\ Cardinality(TargetIdx(t)) <= 2
            /\ \A i \in TargetIdx(t) :
                    (i = Len(tasks[t].sent) /\ tasks[t].sent[i].outcome # "pending")
                        => tasks[t].pc \in {"done", "raised"}
            /\ \A i \in TargetIdx(t) :
                    (tasks[t].sent[i].outcome = "exc" /\ i - 1 \notin TargetIdx(t)) =>
                        /\ i + 1 \in TargetIdx(t)
                        /\ tasks[t].sent[i + 1].outcome = "exc" =>
                                /\ tasks[t].pc = "done"
                                /\ tasks[t].ret = None
                                /\ i + 1 = Len(tasks[t].sent)

\* C3 witness: a POST whose first attempt and whose retry both met a transport
\* exception has returned None after two requests.
C3_Witness ==
    \E t \in Tasks :
        /\ tasks[t].op \in PostOps
        /\ tasks[t].pc = "done"
        /\ tasks[t].ret = None
        /\ Cardinality(TargetIdx(t)) = 2
        /\ \A i \in TargetIdx(t) : tasks[t].sent[i].outcome = "exc"

\* The response is the one login succeeds on: status 200, a JSON object with
\* ok = 1 and an authToken key.
LoginOkResponse(r) ==
    /\ r.kind = "http"
    /\ r.status = 200
    /\ r.body = "object"
    /\ r.hasOk /\ r.ok = 1
    /\ r.authToken # Absent

\* C7: when __async_login returns, it returns True with the response's
\* authToken stored if the response was status 200 with ok = 1 and an
\* authToken key; on every other outcome it returns False and the stored token
\* is None, whatever was stored before.
C7_LoginOutcome ==
    [][\A t \in Tasks :
        (tasks[t].pc = "login" /\ tasks'[t].pc # "login") =>
            IF LoginOkResponse(tasks'[t].loginResp)
                THEN /\ authToken' = tasks'[t].loginResp.authToken
                     /\ tasks'[t].loginResult = "True"
                ELSE /\ authToken' = None
                     /\ tasks'[t].loginResult = "False"]_vars

\* C7 witness: a login that found a token stored and met a 2xx status other
\* than 200 has returned False and left no token.
C7_Witness ==
    \E t \in Tasks :
        /\ tasks[t].op = "__async_login"
        /\ tasks[t].pc = "done"
        /\ tasks[t].entry.authToken # None
        /\ tasks[t].loginResp.kind = "http"
        /\ tasks[t].loginResp.status = 204
        /\ tasks[t].result = "False"
        /\ authToken = None

\* Task t's request in flight is answered in this step.
Answered(t) ==
    /\ tasks[t].pc \in {"login", "target"}
    /\ tasks'[t].sent[Len(tasks[t].sent)].outcome # "pending"

\* C8: a step sets the last-successful-call timestamp to the current time when
\* it processes a response with status 200 and ok = 1 (to a login or to an
\* authenticated request), and every other step leaves the timestamp as it is.
C8_TimestampUpdate ==
    [][IF \E t \in Tasks :
            Answered(t) /\ tasks'[t].sent[Len(tasks[t].sent)].outcome = "ok"
        THEN lastSuccessfulCall' = <<now>>
        ELSE lastSuccessfulCall' = lastSuccessfulCall]_vars

\* C8 witness: a call whose last response was status 200 with ok = 1 has moved
\* the timestamp from an earlier time to the current time.
C8_Witness ==
    \E t \in Tasks :
        /\ tasks[t].pc = "done"
        /\ tasks[t].sent # <<>>
        /\ tasks[t].sent[Len(tasks[t].sent)].outcome = "ok"
        /\ tasks[t].entry.lastSuccessfulCall # <<>>
        /\ tasks[t].entry.lastSuccessfulCall # lastSuccessfulCall
        /\ lastSuccessfulCall = <<now>>

\* C10: no Api call ends in an exception: login, connection status and every
\* authenticated operation end with a result.
C10_NoException ==
    \A t \in Tasks : tasks[t].pc # "raised"

\* ---------------------------------------------------------- manager claims

MutatingApis ==
    {"async_set_target_temperatures", "async_disable", "async_enable_schedule",
     "async_enable_custom_mode"}

\* The mutating calls operation t has made so far.
MutatingIdx(t) ==
    {i \in 1..Len(ops[t].calls) : ops[t].calls[i].api \in MutatingApis}

\* Operation t has read the device's state.
HasRead(t) == ops[t].currentStatus.mode # None

\* In setTemperature t, call i is a temperature write that succeeded and call
\* i + 1 the mode write that failed.
ModeWriteFailedAt(t, i) ==
    /\ i + 1 <= Len(ops[t].calls)
    /\ ops[t].calls[i].api = "async_set_target_temperatures"
    /\ ops[t].calls[i].result = "True"
    /\ ops[t].calls[i + 1].api = "async_enable_custom_mode"
    /\ ops[t].calls[i + 1].result = "False"

\* C4: in setTemperature, once the temperature write has succeeded and the mode
\* write after it has failed, the operation makes exactly one more call, a
\* temperature write with the custom temperature of the status read at the
\* start (home, away, sleep as read), and returns False whether or not that
\* call succeeds.
C4_Rollback ==
    \A t \in Tasks : \A i \in 1..Len(ops[t].calls) :
        (ops[t].op = "setTemperature" /\ ModeWriteFailedAt(t, i)) =>
            /\ ops[t].pc \in {"rollback", "done"}
            /\ ops[t].pc = "rollback" => Len(ops[t].calls) = i + 1
            /\ ops[t].pc = "done" =>
                /\ Len(ops[t].calls) = i + 2
                /\ ops[t].calls[i + 2].api = "async_set_target_temperatures"
                /\ ops[t].calls[i + 2].id = ops[t].homeId
                /\ ops[t].calls[i + 2].temps =
                        <<ops[t].currentStatus.homeTemperature,
                          ops[t].currentStatus.awayTemperature,
                          ops[t].currentStatus.sleepTemperature,
                          ops[t].currentStatus.customTemperature>>
                /\ ops[t].result = "False"

\* C4 witness: a setTemperature to a temperature other than the custom one,
\* whose mode write failed and whose compensating write failed too, has
\* returned False.
C4_Witness ==
    \E t \in Tasks :
        /\ ops[t].op = "setTemperature"
        /\ ops[t].pc = "done"
        /\ ops[t].targetTemp # ops[t].currentStatus.customTemperature
        /\ \E i \in 1..Len(ops[t].calls) :
              /\ ModeWriteFailedAt(t, i)
              /\ Len(ops[t].calls) = i + 2
              /\ ops[t].calls[i + 2].result = "False"
        /\ ops[t].result = "False"

\* C5: a setTemperature(X) that follows a successful setTemperature(X) and
\* reads manual / custom / X from the service returns True and makes no
\* mutating call.
C5_Idempotence ==
    \A t \in Tasks :
        ( /\ ops[t].op = "setTemperature"
          /\ ops[t].entryLastSet = ops[t].targetTemp
          /\ HasRead(t)
          /\ ops[t].currentStatus.mode = "manual"
          /\ ops[t].currentStatus.option = "custom"
          /\ ops[t].currentStatus.customTemperature = ops[t].targetTemp ) =>
            /\ ops[t].pc = "done"
            /\ ops[t].result = "True"
            /\ MutatingIdx(t) = {}

\* C5 witness: the second of two setTemperature(X) in a row has returned True
\* on reading manual / custom / X.
C5_Witness ==
    \E t \in Tasks :
        /\ ops[t].op = "setTemperature"
        /\ ops[t].pc = "done"
        /\ ops[t].entryLastSet = ops[t].targetTemp
        /\ ops[t].currentStatus.mode = "manual"
        /\ ops[t].currentStatus.option = "custom"
        /\ ops[t].currentStatus.customTemperature = ops[t].targetTemp
        /\ ops[t].result = "True"
        /\ MutatingIdx(t) = {}

\* Operation t, having read the status, is a no-op returning True when noop
\* holds, and otherwise makes exactly one mutating call, api, with the id it
\* resolved, and returns that call's result.
NoOpOrOne(t, noop, api, pcname) ==
    IF noop
        THEN /\ ops[t].pc = "done"
             /\ ops[t].result = "True"
             /\ MutatingIdx(t) = {}
        ELSE /\ ops[t].pc \in {pcname, "done"}
             /\ ops[t].pc = pcname => MutatingIdx(t) = {}
             /\ ops[t].pc = "done" =>
                    /\ MutatingIdx(t) = {Len(ops[t].calls)}
                    /\ ops[t].calls[Len(ops[t].calls)].api = api
                    /\ ops[t].calls[Len(ops[t].calls)].id = ops[t].homeId
                    /\ ops[t].result = ops[t].calls[Len(ops[t].calls)].result

\* C6: turnOff that reads mode manual, option frozen returns True with no
\* mutating call, and on any other status makes exactly one call, async_disable;
\* enableSchedule that reads mode schedule (any option) returns True with no
\* mutating call, and on any other status makes exactly one call,
\* async_enable_schedule.
C6_NoOpDetection ==
    \A t \in Tasks :
        /\ (ops[t].op = "turnOff" /\ HasRead(t)) =>
                NoOpOrOne(t, ops[t].currentStatus.mode = "manual"
                                /\ ops[t].currentStatus.option = "frozen",
                          "async_disable", "disable")
        /\ (ops[t].op = "enableSchedule" /\ HasRead(t)) =>
                NoOpOrOne(t, ops[t].currentStatus.mode = "schedule",
                          "async_enable_schedule", "schedule")

\* C6 witness: a turnOff that read manual / frozen has returned True without a
\* mutating call.
C6_Witness ==
    \E t \in Tasks :
        /\ ops[t].op = "turnOff"
        /\ ops[t].pc = "done"
        /\ ops[t].currentStatus.mode = "manual"
        /\ ops[t].currentStatus.option = "frozen"
        /\ ops[t].result = "True"
        /\ MutatingIdx(t) = {}

\* C9: once getHomeId has returned an id, every later resolution by the manager
\* makes no endpoint-listing call and yields that id.
C9_EndpointIdCached ==
    \A t \in Tasks :
        ops[t].entryResolved # None =>
            /\ \A i \in 1..Len(ops[t].calls) :
                    ops[t].calls[i].api # "async_get_endpoints"
            /\ ops[t].pc # "list"
            /\ ops[t].homeId \in {None, ops[t].entryResolved}
            /\ (ops[t].op = "getHomeId" /\ ops[t].pc = "done") =>
                    ops[t].result = ops[t].entryResolved

\* The operations that read the device's state before they act.
ReadingOps == {"getCurrentStatus", "setTemperature", "turnOff", "enableSchedule"}

\* The endpoint-listing call of operation t has returned (None or a list) and
\* the operation has no endpoint id from it.
Unresolved(t) ==
    /\ \E i \in 1..Len(ops[t].calls) :
            /\ ops[t].calls[i].api = "async_get_endpoints"
            /\ ops[t].calls[i].result \in {None, "list"}
    /\ ops[t].homeId = None

\* The status read of operation t has returned None.
ReadFailed(t) ==
    \E i \in 1..Len(ops[t].calls) :
        /\ ops[t].calls[i].api = "async_get_endpoint"
        /\ ops[t].calls[i].result = None

\* C11: setTemperature, turnOff and enableSchedule return False, and
\* getCurrentStatus returns None, with no mutating call made, whenever the
\* endpoint listing gave no id (it failed, or the list was empty) or the status
\* read returned None.
C11_ShortCircuit ==
    \A t \in Tasks :
        (ops[t].op \in ReadingOps /\ (Unresolved(t) \/ ReadFailed(t))) =>
            /\ ops[t].pc = "done"
            /\ ops[t].result = (IF ops[t].op = "getCurrentStatus" THEN None ELSE "False")
            /\ MutatingIdx(t) = {}

\* C12: a setTemperature(X) that reads manual / custom with a custom
\* temperature other than X makes exactly one mutating call, the temperature
\* write with custom = X, no mode write and no revert, and returns that write's
\* result.
C12_TemperatureOnly ==
    \A t \in Tasks :
        ( /\ ops[t].op = "setTemperature"
          /\ HasRead(t)
          /\ ops[t].currentStatus.mode = "manual"
          /\ ops[t].currentStatus.option = "custom"
          /\ ops[t].currentStatus.customTemperature # ops[t].targetTemp ) =>
            /\ ops[t].pc \in {"setTemp", "done"}
            /\ ops[t].pc = "setTemp" => MutatingIdx(t) = {}
            /\ ops[t].pc = "done" =>
                /\ MutatingIdx(t) = {Len(ops[t].calls)}
                /\ ops[t].calls[Len(ops[t].calls)].api = "async_set_target_temperatures"
                /\ ops[t].calls[Len(ops[t].calls)].id = ops[t].homeId
                /\ ops[t].calls[Len(ops[t].calls)].temps[4] = ops[t].targetTemp
                /\ ops[t].result = ops[t].calls[Len(ops[t].calls)].result

\* C12 witness: a setTemperature(X) that read manual / custom / not X has
\* returned True after one temperature write and nothing else.
C12_Witness ==
    \E t \in Tasks :
        /\ ops[t].op = "setTemperature"
        /\ ops[t].pc = "done"
        /\ ops[t].currentStatus.mode = "manual"
        /\ ops[t].currentStatus.option = "custom"
        /\ ops[t].currentStatus.customTemperature # ops[t].targetTemp
        /\ Cardinality(MutatingIdx(t)) = 1
        /\ ops[t].result = "True"

\* C14: getHomeId whose listing call returned a list returns None when the list
\* is empty and the id of its first entry otherwise; it does not raise.
C14_EmptyListIsNone ==
    \A t \in Tasks :
        ( /\ ops[t].op = "getHomeId"
          /\ \E i \in 1..Len(ops[t].calls) : ops[t].calls[i].result = "list" ) =>
            /\ ops[t].pc = "done"
            /\ ops[t].result = (IF endpoints = <<>> THEN None ELSE endpoints[1])


\* --------------------------------------------------------- client claims

\* Outcomes of a request that are protocol failures: a status other than 200,
\* a body that is not JSON, a JSON object without ok or with ok other than 1.
ProtocolFailures == {"status", "decode", "nok"}

\* C13: when the first response to an authenticated call's request is a
\* protocol failure (status other than 200, malformed JSON body, ok missing or
\* other than 1), that request is the only one sent to the target path and the
\* call returns None.
C13_NoRetryOnProtocolFailure ==
    \A t \in Tasks :
        tasks[t].op \in AuthOps =>
            \A i \in TargetIdx(t) :
                (i - 1 \notin TargetIdx(t)
                    /\ tasks[t].sent[i].outcome \in ProtocolFailures) =>
                    /\ TargetIdx(t) = {i}
                    /\ tasks[t].pc = "done"
                    /\ tasks[t].ret = None

\* C15: an authenticated call started with no token stored calls login exactly
\* once; when the login fails the call returns None with no request to the
\* target path; when it succeeds the request is sent, and every request of the
\* call to the target path carries the token that login obtained.
C15_LoginThenSend ==
    \A t \in Tasks :
        (tasks[t].op \in AuthOps /\ tasks[t].entry.authToken = None) =>
            /\ tasks[t].logins = 1
            /\ tasks[t].loginResult = "False" =>
                    /\ tasks[t].pc = "done"
                    /\ tasks[t].ret = None
                    /\ TargetIdx(t) = {}
            /\ tasks[t].loginResult = "True" =>
                    /\ TargetIdx(t) # {}
                    /\ \A i \in TargetIdx(t) :
                            tasks[t].sent[i].headers.authToken =
                                tasks[t].loginResp.authToken

\* C16: the request sent as the retry after a transport exception has the path,
\* the headers and the body of the first attempt, the body being the payload
\* JSON-encoded once.
C16_RetrySameRequest ==
    \A t \in Tasks : \A i \in 1..Len(tasks[t].sent) :
        ( /\ i + 1 <= Len(tasks[t].sent)
          /\ tasks[t].sent[i].outcome = "exc"
          /\ tasks[t].sent[i + 1].path = tasks[t].sent[i].path ) =>
            /\ tasks[t].sent[i + 1].headers = tasks[t].sent[i].headers
            /\ tasks[t].sent[i + 1].body = tasks[t].sent[i].body
            /\ tasks[t].sent[i + 1].body.enc = 1

\* C19: async_connection_status returns True only with a token stored, and a
\* last-successful-call timestamp at most 60 minutes old is never held together
\* with no token.
C19_StatusImpliesToken ==
    /\ \A t \in Tasks :
            ( /\ tasks[t].op = "async_connection_status"
              /\ tasks[t].pc = "done"
              /\ tasks[t].result = "True" ) => authToken # None
    /\ ( /\ lastSuccessfulCall # <<>>
         /\ now - lastSuccessfulCall[1] <= LOGIN_TIMEOUT_DELTA ) => authToken # None


\* ------------------------------------------------- manager as sole writer

\* The temperature writes operation t has made so far.
TempWriteIdx(t) ==
    {i \in 1..Len(ops[t].calls) :
        ops[t].calls[i].api = "async_set_target_temperatures"}

\* C17: every temperature write of setTemperature carries the home, away and
\* sleep temperatures of the status read at the start of the operation, and as
\* custom the target on the first write and the custom temperature read on the
\* revert; with no other writer, the device's home, away and sleep temperatures
\* stay as read all through the operation.
C17_OtherTemperaturesKept ==
    \A t \in Tasks :
        (ops[t].op = "setTemperature" /\ HasRead(t)) =>
            /\ \A i \in TempWriteIdx(t) :
                /\ ops[t].calls[i].temps[1] = ops[t].currentStatus.homeTemperature
                /\ ops[t].calls[i].temps[2] = ops[t].currentStatus.awayTemperature
                /\ ops[t].calls[i].temps[3] = ops[t].currentStatus.sleepTemperature
                /\ ops[t].calls[i].temps[4] =
                        IF \A j \in TempWriteIdx(t) : i <= j
                            THEN ops[t].targetTemp
                            ELSE ops[t].currentStatus.customTemperature
            /\ device.homeTemperature = ops[t].currentStatus.homeTemperature
            /\ device.awayTemperature = ops[t].currentStatus.awayTemperature
            /\ device.sleepTemperature = ops[t].currentStatus.sleepTemperature

\* C17 witness: a setTemperature to another temperature than the custom one
\* has made both writes, each applied by the service, and the device's home,
\* away and sleep temperatures are as read.
C17_Witness ==
    \E t \in Tasks :
        /\ ops[t].op = "setTemperature"
        /\ ops[t].pc = "done"
        /\ ops[t].targetTemp # ops[t].currentStatus.customTemperature
        /\ Cardinality(TempWriteIdx(t)) = 2
        /\ \A i \in TempWriteIdx(t) : ops[t].calls[i].result = "True"
        /\ device.homeTemperature = ops[t].currentStatus.homeTemperature
        /\ device.customTemperature = ops[t].currentStatus.customTemperature

\* C20: with the service applying exactly the writes it acknowledges and no
\* other writer, a setTemperature(X) that returns True leaves the device in
\* mode manual, option custom, custom temperature X.
C20_SetTemperaturePostcondition ==
    \A t \in Tasks :
        (ops[t].op = "setTemperature" /\ ops[t].pc = "done"
            /\ ops[t].result = "True") =>
            /\ device.mode = "manual"
            /\ device.option = "custom"
            /\ device.customTemperature = ops[t].targetTemp

\* C20 witness: a setTemperature(X) that read another mode and another custom
\* temperature has returned True after the temperature write and the mode
\* write, and the device is manual / custom / X.
C20_Witness ==
    \E t \in Tasks :
        /\ ops[t].op = "setTemperature"
        /\ ops[t].pc = "done"
        /\ ops[t].result = "True"
        /\ ops[t].currentStatus.mode = "schedule"
        /\ ops[t].currentStatus.customTemperature # ops[t].targetTemp
        /\ Cardinality(MutatingIdx(t)) = 2
        /\ device.mode = "manual"
        /\ device.option = "custom"
        /\ device.customTemperature = ops[t].targetTemp


\* ------------------------------------------------- overlapping operations

\* setTemperature t holds a snapshot that is not manual / custom / its target.
SnapshotOffTarget(t) ==
    /\ ops[t].op = "setTemperature"
    /\ HasRead(t)
    /\ ~ ( /\ ops[t].currentStatus.mode = "manual"
           /\ ops[t].currentStatus.option = "custom"
           /\ ops[t].currentStatus.customTemperature = ops[t].targetTemp )

\* C18: nothing keeps two overlapping setTemperature operations from acting on
\* the same snapshot: whenever both hold the same snapshot and it is off their
\* targets, each of them is about to make its temperature write or has made
\* it, whatever the other one has done meanwhile.
C18_BothDecideToWrite ==
    \A t \in Tasks : \A u \in Tasks \ {t} :
        ( /\ SnapshotOffTarget(t)
          /\ SnapshotOffTarget(u)
          /\ ops[t].currentStatus = ops[u].currentStatus ) =>
            \/ ops[t].pc = "setTemp"
            \/ TempWriteIdx(t) # {}

\* C18 witness: two setTemperature operations in flight together hold the same
\* snapshot, with a custom temperature that neither of them asked for, and
\* each has made a temperature write the service applied: both reads came
\* before both writes.
C18_Witness ==
    \E t \in Tasks : \E u \in Tasks \ {t} :
        /\ SnapshotOffTarget(t)
        /\ SnapshotOffTarget(u)
        /\ ops[t].currentStatus = ops[u].currentStatus
        /\ ops[t].currentStatus.customTemperature
                \notin {ops[t].targetTemp, ops[u].targetTemp}
        /\ \A v \in {t, u} :
                /\ Cardinality(TempWriteIdx(v)) = 1
                /\ \A i \in TempWriteIdx(v) : ops[v].calls[i].result = "True"


\* ------------------------------------------------------ overlapping calls

\* C21: every request an authenticated call sends to its target path carries
\* the authToken header, under every interleaving of the calls on one client.
C21_AuthHeaderOnEveryRequest ==
    \A t \in Tasks :
        tasks[t].op \in AuthOps =>
            \A i \in TargetIdx(t) :
                tasks[t].sent[i].headers.authToken # Absent


====
